---- MODULE Spec2Model ----
(***************************************************************************)
(* floribundus: a browser extension that reorders the highlighted tabs of  *)
(* the current window, by URL or by a date obtained from the heliotropium  *)
(* extension.  src/ holds four revisions of the background script, and     *)
(* the variable rev says which one is loaded:                              *)
(*   "p2"    src/unnamed/part_002                 (listeners capture the   *)
(*           tabs; batched move; fetchTabDates returns a Map)              *)
(*   "bg"    src/floribundus_background.js:65-392 (each sort captures its  *)
(*           own tabs; batched move; strict getComparableDate)             *)
(*   "p1seq" src/unnamed/part_001:313-680         (moveTabs: one move at a *)
(*           time, back to front; fetchTabDates flashes on failure)        *)
(*   "p1par" src/unnamed/part_001:1-226           (all single moves issued *)
(*           at once, each with its own catch; leftmost alignment)         *)
(* An operation is one run of a listener.  Every await on a host call is   *)
(* a step of the model: tabs.query, the reload waits, runtime.sendMessage, *)
(* tabs.move.  The badge calls are folded into the step that makes them.   *)
(***************************************************************************)
EXTENDS Integers, Sequences, FiniteSets, TLC

\* Number of tabs in the window's tab strip.
NumTabs == 3

\* JavaScript null (a year, month or day that is null, or a null date).
NULL == -1

\* Number of tabs in the wider window in which a selection of three tabs can
\* have a gap.
WideTabs == 4

\* Number of tabs in the window in which two operations overlap.
OverlapTabs == 2

Tabs == 1..NumTabs
Ops == {1, 2}
Revs == {"p2", "bg", "p1seq", "p1par"}
Triggers == {"click", "sort-tabs-by-url", "sort-tabs-by-date"}

\* URLs as sequences of collation weights; Undefined is a tab without url.
Undefined == <<0>>
Urls == {<<1>>, <<2>>}

\* The dates heliotropium may answer for a tab (year, month and day may be
\* null).
NullDate == [null |-> TRUE, year |-> NULL, month |-> NULL, day |-> NULL]
Dates == {[null |-> FALSE, year |-> 2023, month |-> 5, day |-> 5],
          [null |-> FALSE, year |-> 2024, month |-> NULL, day |-> NULL],
          [null |-> FALSE, year |-> NULL, month |-> 5, day |-> 5]}

\* The date a reliable heliotropium finds in the page of tab t: the first tab
\* of the window shows the later date.
PageDate(t) ==
    IF t = 1 THEN [null |-> FALSE, year |-> 2024, month |-> NULL, day |-> NULL]
    ELSE [null |-> FALSE, year |-> 2023, month |-> 5, day |-> 5]

VARIABLES
    rev,         \* the revision of the background script that is loaded
    configured,  \* manifest.externals.heliotropium is present
    installed,   \* heliotropium is installed and can be reached
    reliable,    \* heliotropium answers with the date of every tab asked for
    quota,       \* how many operations the user triggers
    strip,       \* the window's tab strip: tab ids, position = index + 1
    badge,       \* the badge text
    timers,      \* pending setTimeout callbacks that clear the badge
    op           \* per operation: the listener's local state (see InitOp)

vars == <<rev, configured, installed, reliable, quota, strip, badge, timers, op>>

----------------------------------------------------------------------------
\* Helpers

Range(s) == {s[i] : i \in DOMAIN s}

\* The tabs of the window.
Window == Range(strip)

MathMax(S) == CHOOSE m \in S : \A x \in S : x <= m

MathMin(S) == CHOOSE m \in S : \A x \in S : m <= x

\* Array.prototype.sort / toSorted: stable, cmp(a, b) < 0 puts a first.
StableSort(s, cmp(_, _)) ==
    LET n == Len(s)
        rank(i) == Cardinality({j \in 1..n :
                        \/ cmp(s[j], s[i]) < 0
                        \/ (cmp(s[j], s[i]) = 0 /\ j < i)})
    IN  [r \in 1..n |-> s[CHOOSE i \in 1..n : rank(i) = r - 1]]

\* String.prototype.localeCompare on strings of collation weights.
LexLess(a, b) ==
    \E k \in 1..(Len(a) + 1) :
        /\ \A j \in 1..(k - 1) : j <= Len(b) /\ a[j] = b[j]
        /\ k <= Len(b)
        /\ (k > Len(a) \/ a[k] < b[k])

localeCompare(a, b) == IF a = b THEN 0 ELSE IF LexLess(a, b) THEN -1 ELSE 1

\* Faulty variant: a tab without url sorts after every url.
UrlKey_undefinedLast(u) == IF u = Undefined THEN <<3>> ELSE u

\* a.url || ''
UrlKey(u) == IF u = Undefined THEN <<>> ELSE u

TabIds(tabs) == [i \in DOMAIN tabs |-> tabs[i].id]

\* All orderings of a finite set, as sequences.
Perms(S) ==
    {p \in [1..Cardinality(S) -> S] : \A i, j \in DOMAIN p : i # j => p[i] # p[j]}

Position(s, t) == CHOOSE i \in DOMAIN s : s[i] = t

\* The index (0-based) of tab t in the strip.
IndexOf(s, t) == Position(s, t) - 1

----------------------------------------------------------------------------
\* The host's tabs.move

\* chrome.tabs.move(t, {index: k}) on one tab: the tab ends at index k,
\* or at the end of the strip when k is past it.
MoveOne(s, t, k) ==
    LET without == SelectSeq(s, LAMBDA x : x # t)
        kk == IF k > Len(without) THEN Len(without) ELSE k
    IN  SubSeq(without, 1, kk) \o <<t>> \o SubSeq(without, kk + 1, Len(without))

\* chrome.tabs.move(ids, {index: k}): the host moves the first n ids one
\* after the other, the j-th one to index k + j - 1.
RECURSIVE MoveMany(_, _, _, _)
MoveMany(s, ids, k, n) ==
    IF n = 0 THEN s
    ELSE MoveOne(MoveMany(s, ids, k, n - 1), ids[n], k + n - 1)

----------------------------------------------------------------------------
\* Log entries: what an operation emitted and requested, in order.

E(ev, ids, index) == [ev |-> ev, ids |-> ids, index |-> index]

Sig(ev) == E(ev, <<>>, 0)

Emit(c, e) == [c EXCEPT !.log = Append(@, e)]

RECURSIVE EmitAll(_, _)
EmitAll(c, es) == IF es = <<>> THEN c ELSE EmitAll(Emit(c, Head(es)), Tail(es))

\* Nothing is held back for after an awaited badge call.
NoResume == [pc |-> "none", sortedTabs |-> <<>>, startIndex |-> 0,
             moveq |-> <<>>, i |-> 0]

InitOp == [pc |-> "idle", trig |-> "none", tabs |-> <<>>, unloadedTabs |-> {},
           pending |-> {}, listeners |-> {}, tabInfoMap |-> <<>>,
           sortedTabs |-> <<>>, startIndex |-> 0, moveq |-> <<>>, i |-> 0,
           query |-> "unasked", response |-> "unsent", answered |-> {},
           threw |-> FALSE, log |-> <<>>, todo |-> <<>>, resume |-> NoResume]

----------------------------------------------------------------------------
\* The status signal (badge).  setWorkingBadge and flashBadge enter the call
\* in the log; Suspend and Resume carry out their awaits.

setWorkingBadge(c) == Emit(c, Sig("working"))

flashBadge(c, success) == Emit(c, Sig(IF success THEN "success" ELSE "failure"))

Finish(c) == [c EXCEPT !.pc = "done"]

\* await chrome.tabs.move(...): the request is queued for the host.
RequestMove(c, ids, index) ==
    [Emit(c, E("move", ids, index)) EXCEPT
        !.pc = "move", !.moveq = Append(@, [ids |-> ids, index |-> index])]

----------------------------------------------------------------------------
\* Revision p2: src/unnamed/part_002

\* Faulty variant: the query's result is sorted by descending index.
getSelectedTabs_p2_descending(result) ==
    IF result.failed THEN <<>>
    ELSE StableSort(result.tabs, LAMBDA a, b : b.index - a.index)

\* Faulty variant: the query's result is kept in the order the host gave it.
getSelectedTabs_p2_unsorted(result) ==
    IF result.failed THEN <<>> ELSE result.tabs

\* getSelectedTabs: the query's result sorted by index, [] when it fails.
getSelectedTabs_p2(result) ==
    IF result.failed THEN <<>>
    ELSE StableSort(result.tabs, LAMBDA a, b : a.index - b.index)

\* Faulty variant: the block starts at the leftmost selected tab.
sortSelectedTabsByUrl_p2_leftmost(c) ==
    LET tabs == c.tabs
        sortedTabs == StableSort(tabs,
            LAMBDA a, b : localeCompare(UrlKey(a.url), UrlKey(b.url)))
        sortedTabIds == TabIds(sortedTabs)
        leftmostIndex == MathMin({tabs[k].index : k \in DOMAIN tabs})
    IN  RequestMove([setWorkingBadge(c) EXCEPT !.sortedTabs = sortedTabIds],
                    sortedTabIds, leftmostIndex)

\* Faulty variant: tabs without url are left out of the sort and of the move.
sortSelectedTabsByUrl_p2_dropsUndefined(c) ==
    LET tabs == c.tabs
        sortedTabs == StableSort(SelectSeq(tabs, LAMBDA tab : tab.url # Undefined),
            LAMBDA a, b : localeCompare(UrlKey(a.url), UrlKey(b.url)))
        sortedTabIds == TabIds(sortedTabs)
        rightmostIndex == MathMax({tabs[k].index : k \in DOMAIN tabs})
        startIndex == rightmostIndex - Len(sortedTabIds) + 1
    IN  RequestMove([setWorkingBadge(c) EXCEPT !.sortedTabs = sortedTabIds],
                    sortedTabIds, startIndex)

sortSelectedTabsByUrl_p2(c) ==
    LET tabs == c.tabs
        sortedTabs == StableSort(tabs,
            LAMBDA a, b : localeCompare(UrlKey(a.url), UrlKey(b.url)))
        sortedTabIds == TabIds(sortedTabs)
        rightmostIndex == MathMax({tabs[k].index : k \in DOMAIN tabs})
        startIndex == rightmostIndex - Len(sortedTabIds) + 1
    IN  RequestMove([setWorkingBadge(c) EXCEPT !.sortedTabs = sortedTabIds],
                    sortedTabIds, startIndex)

\* tabDataMap.get(id)?.date: undefined, hence no date, for an id without entry.
dateOf(tabDataMap, id) ==
    IF id \in DOMAIN tabDataMap THEN tabDataMap[id] ELSE NullDate

getComparableDate_p2(dateObj) ==
    IF dateObj.null \/ dateObj.year = NULL THEN NULL
    ELSE LET month == IF dateObj.month \in {NULL, 0} THEN 1 ELSE dateObj.month
             day == IF dateObj.day \in {NULL, 0} THEN 1 ELSE dateObj.day
         IN  (dateObj.year * 12 + (month - 1)) * 31 + day

\* Faulty variant: a tab without date sorts before a tab with one.
compareByDate_p2_undatedFirst(tabDataMap, a, b) ==
    LET dateA == getComparableDate_p2(dateOf(tabDataMap, a.id))
        dateB == getComparableDate_p2(dateOf(tabDataMap, b.id))
    IN  IF dateA # NULL /\ dateB # NULL THEN dateA - dateB
        ELSE IF dateA # NULL THEN 1
        ELSE IF dateB # NULL THEN -1
        ELSE 0

\* Faulty variant: two tabs without date are put in descending index order.
compareByDate_p2_undatedReversed(tabDataMap, a, b) ==
    LET dateA == getComparableDate_p2(dateOf(tabDataMap, a.id))
        dateB == getComparableDate_p2(dateOf(tabDataMap, b.id))
    IN  IF dateA # NULL /\ dateB # NULL THEN dateA - dateB
        ELSE IF dateA # NULL THEN -1
        ELSE IF dateB # NULL THEN 1
        ELSE b.index - a.index

compareByDate_p2(tabDataMap, a, b) ==
    LET dateA == getComparableDate_p2(dateOf(tabDataMap, a.id))
        dateB == getComparableDate_p2(dateOf(tabDataMap, b.id))
    IN  IF dateA # NULL /\ dateB # NULL THEN dateA - dateB
        ELSE IF dateA # NULL THEN -1
        ELSE IF dateB # NULL THEN 1
        ELSE 0

\* Faulty variant: tabs.sort sorts the captured array itself.
sortSelectedTabsByDate_p2_inPlace(c) ==
    LET tabs == c.tabs
        sortedTabs == StableSort(tabs,
            LAMBDA a, b : compareByDate_p2(c.tabInfoMap, a, b))
        sortedTabIds == TabIds(sortedTabs)
        rightmostIndex == MathMax({tabs[k].index : k \in DOMAIN tabs})
        startIndex == rightmostIndex - Len(sortedTabIds) + 1
    IN  RequestMove([setWorkingBadge(c) EXCEPT !.sortedTabs = sortedTabIds,
                                               !.tabs = sortedTabs],
                    sortedTabIds, startIndex)

\* Faulty variant: the block is put at the left edge of the window.
sortSelectedTabsByDate_p2_fromZero(c) ==
    LET tabs == c.tabs
        sortedTabs == StableSort(tabs,
            LAMBDA a, b : compareByDate_p2(c.tabInfoMap, a, b))
        sortedTabIds == TabIds(sortedTabs)
    IN  RequestMove([setWorkingBadge(c) EXCEPT !.sortedTabs = sortedTabIds],
                    sortedTabIds, 0)

\* Faulty variant: the start index is one short of rightmost - n + 1.
sortSelectedTabsByDate_p2_offByOne(c) ==
    LET tabs == c.tabs
        sortedTabs == StableSort(tabs,
            LAMBDA a, b : compareByDate_p2(c.tabInfoMap, a, b))
        sortedTabIds == TabIds(sortedTabs)
        rightmostIndex == MathMax({tabs[k].index : k \in DOMAIN tabs})
        startIndex == rightmostIndex - Len(sortedTabIds) + 2
    IN  RequestMove([setWorkingBadge(c) EXCEPT !.sortedTabs = sortedTabIds],
                    sortedTabIds, startIndex)

sortSelectedTabsByDate_p2(c) ==
    LET tabs == c.tabs
        sortedTabs == StableSort(tabs,
            LAMBDA a, b : compareByDate_p2(c.tabInfoMap, a, b))
        sortedTabIds == TabIds(sortedTabs)
        rightmostIndex == MathMax({tabs[k].index : k \in DOMAIN tabs})
        startIndex == rightmostIndex - Len(sortedTabIds) + 1
    IN  RequestMove([setWorkingBadge(c) EXCEPT !.sortedTabs = sortedTabIds],
                    sortedTabIds, startIndex)

\* Faulty variant: the fallback map has an entry for every tab of the window.
fallbackMap_wholeWindow(tabs) == [id \in Window |-> NullDate]

\* The fallback map: every tab with date null.
fallbackMap(tabs) == [id \in Range(TabIds(tabs)) |-> NullDate]

\* Faulty variant: the request names the tabs that were complete only.
requestDates_p2_readyOnly(c, cfg) ==
    LET c1 == [c EXCEPT !.tabInfoMap = fallbackMap(c.tabs)]
        ready == SelectSeq(c.tabs, LAMBDA tab : ~tab.unloaded)
    IN  IF ~cfg THEN sortSelectedTabsByDate_p2(c1)
        ELSE [Emit(c1, E("get-dates", TabIds(ready), 0)) EXCEPT !.pc = "msg"]

\* Faulty variant: the request is sent whatever the manifest holds.
requestDates_p2_alwaysSends(c, cfg) ==
    [Emit([c EXCEPT !.tabInfoMap = fallbackMap(c.tabs)],
          E("get-dates", TabIds(c.tabs), 0)) EXCEPT !.pc = "msg"]

\* fetchTabDates after the reload waits: the manifest lookup and the request.
requestDates_p2(c, cfg) ==
    LET c1 == [c EXCEPT !.tabInfoMap = fallbackMap(c.tabs)]
    IN  IF ~cfg THEN sortSelectedTabsByDate_p2(c1)
        ELSE [Emit(c1, E("get-dates", TabIds(c.tabs), 0)) EXCEPT !.pc = "msg"]

\* Faulty variant: Promise.race in place of Promise.all, one settled wait is enough.
allSettled_race(pending) == TRUE

\* Promise.all(reloadPromises) has resolved when no wait is pending.
allSettled(pending) == pending = {}

\* Faulty variant: every tab of the selection is reloaded when one is unloaded.
fetchTabDates_p2_reloadsAll(c, cfg) ==
    LET tabs == c.tabs
        unloadedTabs == SelectSeq(tabs, LAMBDA tab : tab.unloaded)
        ids == Range(TabIds(unloadedTabs))
    IN  IF Len(unloadedTabs) > 0
        THEN [EmitAll(c, [k \in DOMAIN tabs |-> E("reload", <<tabs[k].id>>, 0)])
                EXCEPT !.pc = "waits", !.unloadedTabs = ids,
                       !.pending = ids, !.listeners = ids]
        ELSE requestDates_p2(c, cfg)

\* fetchTabDates up to its first await.
fetchTabDates_p2(c, cfg) ==
    LET tabs == c.tabs
        unloadedTabs == SelectSeq(tabs, LAMBDA tab : tab.unloaded)
        ids == Range(TabIds(unloadedTabs))
    IN  IF Len(unloadedTabs) > 0
        THEN [EmitAll(c, [k \in DOMAIN unloadedTabs |->
                              E("reload", <<unloadedTabs[k].id>>, 0)])
                EXCEPT !.pc = "waits", !.unloadedTabs = ids,
                       !.pending = ids, !.listeners = ids]
        ELSE requestDates_p2(c, cfg)

\* One reload wait of fetchTabDates resolves: the listener saw the tab
\* complete (reloaded = TRUE) or the timeout fired; .finally removes the listener.
waitResolved_p2(c, t, reloaded, cfg) ==
    LET c1 == [c EXCEPT !.pending = @ \ {t}, !.listeners = @ \ {t}]
    IN  IF c.pc = "waits" /\ t \in c.pending /\ allSettled(c1.pending)
        THEN requestDates_p2(c1, cfg)
        ELSE c1

\* Faulty variant: every entry of the response is put into the map.
receiveDates_p2_keepsExtras(c, response) ==
    LET merged == [id \in DOMAIN c.tabInfoMap \cup DOMAIN response.data |->
                     IF id \in DOMAIN response.data THEN response.data[id]
                     ELSE c.tabInfoMap[id]]
    IN  IF response.kind = "data"
        THEN sortSelectedTabsByDate_p2([c EXCEPT !.tabInfoMap = merged])
        ELSE sortSelectedTabsByDate_p2(c)

\* Faulty variant: the response's entries replace the fallback map.
receiveDates_p2_noMerge(c, response) ==
    IF response.kind = "data"
    THEN sortSelectedTabsByDate_p2([c EXCEPT !.tabInfoMap = response.data])
    ELSE sortSelectedTabsByDate_p2(c)

\* fetchTabDates from the response of sendMessage on.
receiveDates_p2(c, response) ==
    LET tabs == c.tabs
        merged == [id \in DOMAIN c.tabInfoMap |->
                     IF id \in DOMAIN response.data THEN response.data[id]
                     ELSE c.tabInfoMap[id]]
    IN  IF response.kind = "data"
        THEN sortSelectedTabsByDate_p2([c EXCEPT !.tabInfoMap = merged])
        ELSE sortSelectedTabsByDate_p2(c)

\* Faulty variant: every trigger goes through fetchTabDates.
listener_p2_alwaysFetches(c, result, cfg) ==
    LET c1 == [c EXCEPT !.tabs = getSelectedTabs_p2(result)]
    IN  IF Len(c1.tabs) < 2 THEN Finish(flashBadge(c1, TRUE))
        ELSE fetchTabDates_p2(c1, cfg)

\* Faulty variant: the short circuit only for an empty selection.
listener_p2_onlyEmpty(c, result, cfg) ==
    LET c1 == [c EXCEPT !.tabs = getSelectedTabs_p2(result)]
    IN  IF Len(c1.tabs) < 1 THEN Finish(flashBadge(c1, TRUE))
        ELSE IF c.trig = "sort-tabs-by-url" THEN sortSelectedTabsByUrl_p2(c1)
        ELSE fetchTabDates_p2(c1, cfg)

\* The onClicked and onCommand listeners, from the query's result on.
listener_p2(c, result, cfg) ==
    LET c1 == [c EXCEPT !.tabs = getSelectedTabs_p2(result)]
    IN  IF Len(c1.tabs) < 2 THEN Finish(flashBadge(c1, TRUE))
        ELSE IF c.trig = "sort-tabs-by-url" THEN sortSelectedTabsByUrl_p2(c1)
        ELSE fetchTabDates_p2(c1, cfg)

\* Faulty variant: the catch logs the error and flashes nothing.
moveSettled_p2_silentCatch(c, ok) ==
    IF ok THEN Finish(flashBadge(c, TRUE)) ELSE Finish(c)

\* The batched move has settled: sortSelectedTabsByUrl / sortSelectedTabsByDate.
moveSettled_p2(c, ok) == Finish(flashBadge(c, ok))

----------------------------------------------------------------------------
\* Revision bg: src/floribundus_background.js, lines 65-392

getComparableDate_bg(dateObj) ==
    IF dateObj.null \/ dateObj.year = NULL \/ dateObj.month = NULL
                    \/ dateObj.day = NULL
    THEN NULL
    ELSE (dateObj.year * 12 + (dateObj.month - 1)) * 31 + dateObj.day

compareByDate_bg(tabDataMap, a, b) ==
    LET dateA == getComparableDate_bg(dateOf(tabDataMap, a.id))
        dateB == getComparableDate_bg(dateOf(tabDataMap, b.id))
    IN  IF dateA # NULL /\ dateB # NULL THEN dateA - dateB
        ELSE IF dateA # NULL THEN -1
        ELSE IF dateB # NULL THEN 1
        ELSE 0

\* sortSelectedTabsByDate from the return of fetchTabDates on.
sortByDate_bg(c) ==
    LET tabs == c.tabs
        sortedTabs == StableSort(tabs,
            LAMBDA a, b : compareByDate_bg(c.tabInfoMap, a, b))
        sortedTabIds == TabIds(sortedTabs)
        rightmostIndex == MathMax({tabs[k].index : k \in DOMAIN tabs})
        startIndex == rightmostIndex - Len(sortedTabIds) + 1
    IN  RequestMove([c EXCEPT !.sortedTabs = sortedTabIds], sortedTabIds, startIndex)

requestDates_bg(c, cfg) ==
    LET c1 == [c EXCEPT !.tabInfoMap = fallbackMap(c.tabs)]
    IN  IF ~cfg THEN sortByDate_bg(c1)
        ELSE [Emit(c1, E("get-dates", TabIds(c.tabs), 0)) EXCEPT !.pc = "msg"]

fetchTabDates_bg(c, cfg) ==
    LET tabs == c.tabs
        unloadedTabs == SelectSeq(tabs, LAMBDA tab : tab.unloaded)
        ids == Range(TabIds(unloadedTabs))
    IN  IF Len(unloadedTabs) > 0
        THEN [EmitAll(c, [k \in DOMAIN unloadedTabs |->
                              E("reload", <<unloadedTabs[k].id>>, 0)])
                EXCEPT !.pc = "waits", !.unloadedTabs = ids,
                       !.pending = ids, !.listeners = ids]
        ELSE requestDates_bg(c, cfg)

\* One reload wait resolves.  Only the listener removes itself, when it sees
\* the tab complete: after a timeout it stays registered.
waitResolved_bg(c, t, reloaded, cfg) ==
    LET c1 == [c EXCEPT !.pending = @ \ {t},
                        !.listeners = IF reloaded THEN @ \ {t} ELSE @]
    IN  IF c.pc = "waits" /\ t \in c.pending /\ allSettled(c1.pending)
        THEN requestDates_bg(c1, cfg)
        ELSE c1

receiveDates_bg(c, response) ==
    LET merged == [id \in DOMAIN c.tabInfoMap |->
                     IF id \in DOMAIN response.data THEN response.data[id]
                     ELSE c.tabInfoMap[id]]
    IN  IF response.kind = "data"
        THEN sortByDate_bg([c EXCEPT !.tabInfoMap = merged])
        ELSE sortByDate_bg(c)

\* sortSelectedTabsByUrl from the return of getSelectedTabs on.
sortSelectedTabsByUrl_bg(c, result) ==
    LET tabs == getSelectedTabs_p2(result)
        sortedTabs == StableSort(tabs,
            LAMBDA a, b : localeCompare(UrlKey(a.url), UrlKey(b.url)))
        sortedTabIds == TabIds(sortedTabs)
        rightmostIndex == MathMax({tabs[k].index : k \in DOMAIN tabs})
        startIndex == rightmostIndex - Len(sortedTabIds) + 1
        c1 == [c EXCEPT !.tabs = tabs]
    IN  IF Len(tabs) < 2 THEN Finish(flashBadge(c1, TRUE))
        ELSE RequestMove([c1 EXCEPT !.sortedTabs = sortedTabIds],
                         sortedTabIds, startIndex)

\* sortSelectedTabsByDate from the return of getSelectedTabs on.
sortSelectedTabsByDate_bg(c, result, cfg) ==
    LET c1 == [c EXCEPT !.tabs = getSelectedTabs_p2(result)]
    IN  IF Len(c1.tabs) < 2 THEN Finish(flashBadge(c1, TRUE))
        ELSE fetchTabDates_bg(c1, cfg)

listener_bg(c, result, cfg) ==
    IF c.trig = "sort-tabs-by-url" THEN sortSelectedTabsByUrl_bg(c, result)
    ELSE sortSelectedTabsByDate_bg(c, result, cfg)

moveSettled_bg(c, ok) == Finish(flashBadge(c, ok))

----------------------------------------------------------------------------
\* Date strings of revisions p1seq and p1par: `${year}-${month}-${day}` as
\* collation weights ('-' 1, digits 2..11, 'l' 12, 'n' 13, 'u' 14).

RECURSIVE Digits(_)
Digits(n) == IF n < 10 THEN <<n + 2>> ELSE Digits(n \div 10) \o <<(n % 10) + 2>>

Str(v) == IF v = NULL THEN <<13, 14, 12, 12>> ELSE Digits(v)

\* date || {} leaves the three fields undefined, and each defaults to ''.
dateString(date) ==
    IF date.null THEN <<1, 1>>
    ELSE Str(date.year) \o <<1>> \o Str(date.month) \o <<1>> \o Str(date.day)

\* The fallback entry of these revisions: a date object whose fields are null.
fallbackData(tabs) ==
    [id \in Range(TabIds(tabs)) |->
        [null |-> FALSE, year |-> NULL, month |-> NULL, day |-> NULL]]

compareByDateString(dateMap, a, b) ==
    localeCompare(dateString(dateMap[a.id]), dateString(dateMap[b.id]))

----------------------------------------------------------------------------
\* Revision p1seq: src/unnamed/part_001, lines 313-680

\* Faulty variant: the block is aligned to the leftmost tab, as in the first revisions.
moveTabs_p1seq_leftmost(c, sortedTabIds) ==
    LET originalTabs == c.tabs
        n == Len(sortedTabIds)
        leftmostIndex == MathMin({originalTabs[k].index : k \in DOMAIN originalTabs})
    IN  IF n = 0 THEN Finish(flashBadge([c EXCEPT !.sortedTabs = sortedTabIds], TRUE))
        ELSE RequestMove([c EXCEPT !.sortedTabs = sortedTabIds,
                                   !.startIndex = leftmostIndex, !.i = n - 1],
                         <<sortedTabIds[n]>>, leftmostIndex + (n - 1))

\* Faulty variant: the loop starts with the first sorted tab.
moveTabs_p1seq_frontFirst(c, sortedTabIds) ==
    LET originalTabs == c.tabs
        n == Len(sortedTabIds)
        rightmostIndex == MathMax({originalTabs[k].index : k \in DOMAIN originalTabs})
        startIndex == rightmostIndex - n + 1
    IN  IF n = 0 THEN Finish(flashBadge([c EXCEPT !.sortedTabs = sortedTabIds], TRUE))
        ELSE RequestMove([c EXCEPT !.sortedTabs = sortedTabIds,
                                   !.startIndex = startIndex, !.i = n - 1],
                         <<sortedTabIds[1]>>, startIndex)

\* Faulty variant: the first move of the loop is not awaited.
moveTabs_p1seq_noAwait(c, sortedTabIds) ==
    LET originalTabs == c.tabs
        n == Len(sortedTabIds)
        rightmostIndex == MathMax({originalTabs[k].index : k \in DOMAIN originalTabs})
        startIndex == rightmostIndex - n + 1
        c1 == [c EXCEPT !.sortedTabs = sortedTabIds, !.startIndex = startIndex]
    IN  IF n = 0 THEN Finish(flashBadge([c EXCEPT !.sortedTabs = sortedTabIds], TRUE))
        ELSE IF n = 1
        THEN RequestMove([c1 EXCEPT !.i = 0], <<sortedTabIds[n]>>, startIndex)
        ELSE RequestMove(RequestMove([c1 EXCEPT !.i = n - 2],
                                     <<sortedTabIds[n]>>, startIndex + (n - 1)),
                         <<sortedTabIds[n - 1]>>, startIndex + (n - 2))

\* moveTabs: the loop issues the move of sortedTabs[i] (i counted from 0).
moveTabs_p1seq(c, sortedTabIds) ==
    LET originalTabs == c.tabs
        n == Len(sortedTabIds)
        rightmostIndex == MathMax({originalTabs[k].index : k \in DOMAIN originalTabs})
        startIndex == rightmostIndex - n + 1
    IN  IF n = 0 THEN Finish(flashBadge([c EXCEPT !.sortedTabs = sortedTabIds], TRUE))
        ELSE RequestMove([c EXCEPT !.sortedTabs = sortedTabIds,
                                   !.startIndex = startIndex, !.i = n - 1],
                         <<sortedTabIds[n]>>, startIndex + (n - 1))

\* moveTabs after one awaited move: the next iteration, the end of the loop,
\* or the catch around the loop.
moveSettled_p1seq(c, ok) ==
    IF ~ok THEN Finish(flashBadge(c, FALSE))
    ELSE IF c.i > 0
    THEN RequestMove([c EXCEPT !.i = c.i - 1],
                     <<c.sortedTabs[c.i]>>, c.startIndex + (c.i - 1))
    ELSE Finish(flashBadge(c, TRUE))

\* sortSelectedTabsByDate from the return of fetchTabDates on.
sortByDate_p1seq(c) ==
    LET sortedTabs == StableSort(c.tabs,
            LAMBDA a, b : compareByDateString(c.tabInfoMap, a, b))
    IN  moveTabs_p1seq(c, TabIds(sortedTabs))

\* fetchTabDates after the reload waits.  Destructuring
\* manifest.externals.heliotropium throws when it is missing, and the catch
\* of sortSelectedTabsByDate flashes the failure.
requestDates_p1seq(c, cfg) ==
    IF ~cfg THEN Finish(flashBadge([c EXCEPT !.threw = TRUE], FALSE))
    ELSE [Emit([c EXCEPT !.tabInfoMap = fallbackData(c.tabs)],
               E("get-dates", TabIds(c.tabs), 0)) EXCEPT !.pc = "msg"]

fetchTabDates_p1seq(c, cfg) ==
    LET tabs == c.tabs
        unloadedTabs == SelectSeq(tabs, LAMBDA tab : tab.unloaded)
        ids == Range(TabIds(unloadedTabs))
    IN  IF Len(unloadedTabs) > 0
        THEN [EmitAll(c, [k \in DOMAIN unloadedTabs |->
                              E("reload", <<unloadedTabs[k].id>>, 0)])
                EXCEPT !.pc = "waits", !.unloadedTabs = ids,
                       !.pending = ids, !.listeners = ids]
        ELSE requestDates_p1seq(c, cfg)

waitResolved_p1seq(c, t, reloaded, cfg) ==
    LET c1 == [c EXCEPT !.pending = @ \ {t},
                        !.listeners = IF reloaded THEN @ \ {t} ELSE @]
    IN  IF c.pc = "waits" /\ t \in c.pending /\ allSettled(c1.pending)
        THEN requestDates_p1seq(c1, cfg)
        ELSE c1

\* The catch of fetchTabDates for a rejected sendMessage.  Its body is not in
\* the source (part_001 ends the function at the line of the catch, 558); it
\* is modelled from the specification: a transport error is reported as a
\* failure and the attributes degrade to absent.
receiveDatesCatch_p1seq(c) == sortByDate_p1seq(flashBadge(c, FALSE))

\* fetchTabDates from the response on: no response, an error and an
\* unexpected format flash the failure badge and return the fallback data
\* (part_001:511-530); data is merged over the fallback data (534-555).
receiveDates_p1seq(c, response) ==
    LET completeData == [id \in DOMAIN c.tabInfoMap |->
                           IF id \in DOMAIN response.data THEN response.data[id]
                           ELSE c.tabInfoMap[id]]
    IN  CASE response.kind = "data" ->
                sortByDate_p1seq([c EXCEPT !.tabInfoMap = completeData])
          [] response.kind = "throw" -> receiveDatesCatch_p1seq(c)
          [] OTHER -> sortByDate_p1seq(flashBadge(c, FALSE))

sortSelectedTabsByDate_p1seq(c, result, cfg) ==
    fetchTabDates_p1seq([c EXCEPT !.tabs = getSelectedTabs_p2(result)], cfg)

listener_p1seq(c, result, cfg) ==
    IF c.trig = "sort-tabs-by-url" THEN sortSelectedTabsByUrl_bg(c, result)
    ELSE sortSelectedTabsByDate_p1seq(c, result, cfg)

----------------------------------------------------------------------------
\* Revision p1par: src/unnamed/part_001, lines 1-226

RECURSIVE RequestMoves(_, _, _, _)
\* sortedTabs.map((tab, i) => chrome.tabs.move(tab.id, {index: leftmostIndex + i}))
RequestMoves(c, ids, leftmostIndex, n) ==
    IF n = 0 THEN c
    ELSE RequestMove(RequestMoves(c, ids, leftmostIndex, n - 1),
                     <<ids[n]>>, leftmostIndex + (n - 1))

\* Promise.all over the moves, each with its own catch, then the success badge.
moveSettled_p1par(c, ok) ==
    IF c.moveq = <<>> THEN Finish(flashBadge(c, TRUE)) ELSE c

\* tabs.sort(...) sorts the array in place; the moves are issued all at once.
moveSorted_p1par(c, sortedTabs) ==
    LET leftmostIndex == MathMin({c.tabs[k].index : k \in DOMAIN c.tabs})
        ids == TabIds(sortedTabs)
        c1 == [c EXCEPT !.tabs = sortedTabs, !.sortedTabs = ids]
    IN  IF Len(ids) = 0 THEN Finish(flashBadge(c1, TRUE))
        ELSE RequestMoves(c1, ids, leftmostIndex, Len(ids))

sortSelectedTabsByUrl_p1par(c, result) ==
    LET tabs == result.tabs
        sortedTabs == StableSort(tabs,
            LAMBDA a, b : localeCompare(UrlKey(a.url), UrlKey(b.url)))
    IN  IF result.failed \/ Len(tabs) = 0 THEN Finish(flashBadge(c, FALSE))
        ELSE moveSorted_p1par([c EXCEPT !.tabs = tabs], sortedTabs)

sortTabsByDate_p1par(c) ==
    moveSorted_p1par(c, StableSort(c.tabs,
        LAMBDA a, b : compareByDateString(c.tabInfoMap, a, b)))

\* sortSelectedTabsByDate: getSelectedTabs returns null when the query fails,
\* fetchTabDates(null) throws, and the catch flashes the failure.
sortSelectedTabsByDate_p1par(c, result) ==
    IF result.failed THEN Finish(flashBadge([c EXCEPT !.threw = TRUE], FALSE))
    ELSE [Emit([c EXCEPT !.tabs = result.tabs,
                         !.tabInfoMap = fallbackData(result.tabs)],
               E("get-dates", TabIds(result.tabs), 0)) EXCEPT !.pc = "msg"]

receiveDates_p1par(c, response) ==
    LET completeData == [id \in DOMAIN c.tabInfoMap |->
                           IF id \in DOMAIN response.data THEN response.data[id]
                           ELSE c.tabInfoMap[id]]
    IN  IF response.kind = "data"
        THEN sortTabsByDate_p1par([c EXCEPT !.tabInfoMap = completeData])
        ELSE sortTabsByDate_p1par(flashBadge(c, FALSE))

listener_p1par(c, result) ==
    IF c.trig = "sort-tabs-by-url" THEN sortSelectedTabsByUrl_p1par(c, result)
    ELSE sortSelectedTabsByDate_p1par(c, result)

----------------------------------------------------------------------------
\* The state machine

\* Faulty variant: no listener sets the working badge.
start_noBadge(c, r, trig) == [c EXCEPT !.pc = "query", !.trig = trig]

\* The listener up to its first await of the host: the working badge (the
\* first revision has none) and the tabs.query request.
start(c, r, trig) ==
    LET c1 == [c EXCEPT !.pc = "query", !.trig = trig]
    IN  IF r = "p1par" THEN c1 ELSE setWorkingBadge(c1)

afterQuery(c, r, result, cfg) ==
    CASE r = "p2" -> listener_p2(c, result, cfg)
      [] r = "bg" -> listener_bg(c, result, cfg)
      [] r = "p1seq" -> listener_p1seq(c, result, cfg)
      [] r = "p1par" -> listener_p1par(c, result)

afterWait(c, r, t, reloaded, cfg) ==
    CASE r = "p2" -> waitResolved_p2(c, t, reloaded, cfg)
      [] r = "bg" -> waitResolved_bg(c, t, reloaded, cfg)
      [] r = "p1seq" -> waitResolved_p1seq(c, t, reloaded, cfg)
      [] r = "p1par" -> c

afterResponse(c, r, response) ==
    CASE r = "p2" -> receiveDates_p2(c, response)
      [] r = "bg" -> receiveDates_bg(c, response)
      [] r = "p1seq" -> receiveDates_p1seq(c, response)
      [] r = "p1par" -> receiveDates_p1par(c, response)

\* Which code awaits the move: moveTabs only sorts by date in p1seq.
afterMove(c, r, ok) ==
    CASE r = "p2" -> moveSettled_p2(c, ok)
      [] r = "bg" -> moveSettled_bg(c, ok)
      [] r = "p1seq" -> IF c.trig = "sort-tabs-by-url" THEN moveSettled_bg(c, ok)
                        ELSE moveSettled_p1seq(c, ok)
      [] r = "p1par" -> moveSettled_p1par(c, ok)

IsSignal(e) == e.ev \in {"working", "success", "failure"}

IsTerminal(e) == e.ev \in {"success", "failure"}

BadgeText(ev) ==
    CASE ev = "working" -> "..." [] ev = "success" -> "ok" [] ev = "failure" -> "x"

\* The place of the first badge signal among the entries es, 0 if none.
FirstSignal(es) ==
    IF \A k \in DOMAIN es : ~IsSignal(es[k]) THEN 0
    ELSE MathMin({k \in DOMAIN es : IsSignal(es[k])})

\* setWorkingBadge and flashBadge await chrome.action.setBadgeText and then
\* chrome.action.setBadgeBackgroundColor.  The handler that takes the
\* invocation from old to c2 runs up to the first badge signal it emits:
\* setBadgeText is called and the invocation is suspended.  What the handler
\* does after the signal depends on its locals only; its calls are held back
\* in todo, and with them what the sort after the signal assigns.
Suspend(old, c2) ==
    LET new == SubSeq(c2.log, Len(old.log) + 1, Len(c2.log))
        k == FirstSignal(new)
        rest == SubSeq(new, k + 1, Len(new))
    IN  IF k = 0 THEN c2
        ELSE IF rest = <<>>
        THEN [c2 EXCEPT !.log = old.log \o SubSeq(new, 1, k),
                        !.pc = "badgeText",
                        !.resume = [NoResume EXCEPT !.pc = c2.pc,
                                       !.sortedTabs = c2.sortedTabs,
                                       !.startIndex = c2.startIndex,
                                       !.moveq = c2.moveq, !.i = c2.i]]
        ELSE [c2 EXCEPT !.log = old.log \o SubSeq(new, 1, k),
                        !.pc = "badgeText",
                        !.todo = rest,
                        !.resume = [NoResume EXCEPT !.pc = c2.pc,
                                       !.sortedTabs = c2.sortedTabs,
                                       !.startIndex = c2.startIndex,
                                       !.moveq = c2.moveq, !.i = c2.i],
                        !.sortedTabs = old.sortedTabs,
                        !.startIndex = old.startIndex,
                        !.moveq = old.moveq, !.i = old.i]

\* The invocation goes on after the awaited setBadgeBackgroundColor: up to
\* the next badge signal, or to the host call it awaits next.
Resume(c) ==
    LET k == FirstSignal(c.todo)
    IN  IF k = 0
        THEN [c EXCEPT !.log = @ \o c.todo, !.todo = <<>>,
                       !.pc = c.resume.pc,
                       !.sortedTabs = c.resume.sortedTabs,
                       !.startIndex = c.resume.startIndex,
                       !.moveq = c.resume.moveq, !.i = c.resume.i,
                       !.resume = NoResume]
        ELSE [c EXCEPT !.log = @ \o SubSeq(c.todo, 1, k),
                       !.todo = SubSeq(c.todo, k + 1, Len(c.todo)),
                       !.pc = "badgeText"]

\* The badge after the invocations of D went from op[o] to next[o]: the text
\* of the setBadgeText call one of them made, if any did.
BadgeAfter(D, next) ==
    LET S == {o \in D : Len(next[o].log) > Len(op[o].log)
                          /\ next[o].pc = "badgeText"}
    IN  IF S = {} THEN badge
        ELSE LET o == CHOOSE x \in S : \A y \in S : y <= x
             IN  BadgeText(next[o].log[Len(next[o].log)].ev)

\* The handler takes invocation o from op[o] to c2, up to its first awaited
\* badge call.
Commit(o, c2) ==
    LET next == [x \in {o} |-> Suspend(op[o], c2)]
    IN  /\ op' = [op EXCEPT ![o] = next[o]]
        /\ badge' = BadgeAfter({o}, next)
        /\ timers' = timers

\* Only sorting by URL reads tab.url: the query's answers vary the url for
\* the handlers that read it, and leave it undefined otherwise.  Any tab may
\* be discarded or loading; the first revision has no code that reads it.
UrlsRead(r, trig, S) ==
    IF trig = "sort-tabs-by-url" THEN [S -> Urls \cup {Undefined}]
    ELSE {[t \in S |-> Undefined]}

StatusRead(r, trig, S) ==
    IF r # "p1par" THEN SUBSET S ELSE {{}}

\* The tab objects tabs.query may return: any highlighted set, in any order.
TabObjects(p, u, U) ==
    [k \in DOMAIN p |-> [id |-> p[k], index |-> IndexOf(strip, p[k]),
                         url |-> u[p[k]], unloaded |-> p[k] \in U]]

\* The answers runtime.sendMessage may settle with: no response, an error, a
\* data field that is no array, a rejection, or dates for any tabs of the
\* window, asked for or not.  Without a receiving extension the promise is
\* rejected; a reliable heliotropium answers with the dates of the pages.
Responses(c) ==
    IF ~installed THEN {[kind |-> "throw", data |-> <<>>]}
    ELSE IF reliable
    THEN {[kind |-> "data",
           data |-> [id \in Range(TabIds(c.tabs)) |-> PageDate(id)]]}
    ELSE {[kind |-> k, data |-> <<>>] :
             k \in {"none", "error", "malformed", "throw"}}
         \cup {[kind |-> "data", data |-> d] :
                  d \in UNION {[S -> Dates] : S \in SUBSET Window}}

Init ==
    /\ rev \in Revs
    /\ configured \in BOOLEAN
    /\ installed = TRUE
    /\ reliable = FALSE
    /\ quota = 1
    /\ strip = [i \in Tabs |-> i]
    /\ badge = ""
    /\ timers = 0
    /\ op = [o \in Ops |-> InitOp]

\* The user clicks the action button or presses a command's shortcut.
Trigger(o) ==
    /\ op[o].pc = "idle"
    /\ o <= quota
    /\ \A q \in Ops : q < o => op[q].pc # "idle"
    /\ \E trig \in Triggers : Commit(o, start(op[o], rev, trig))
    /\ UNCHANGED <<rev, configured, installed, reliable, quota, strip>>

\* chrome.tabs.query settles.
QueryDone(o) ==
    /\ op[o].pc = "query"
    /\ \/ Commit(o, afterQuery([op[o] EXCEPT !.query = "failed"], rev,
                        [failed |-> TRUE, tabs |-> <<>>], configured))
       \/ \E S \in SUBSET Window : \E p \in Perms(S) :
          \E u \in UrlsRead(rev, op[o].trig, S) :
          \E U \in StatusRead(rev, op[o].trig, S) :
            Commit(o, afterQuery([op[o] EXCEPT !.query = "ok"], rev,
                        [failed |-> FALSE, tabs |-> TabObjects(p, u, U)], configured))
    /\ UNCHANGED <<rev, configured, installed, reliable, quota, strip>>

\* tabs.onUpdated reports tab t complete: one event, dispatched to the
\* listener of every invocation that has one on t.
TabUpdated(t) ==
    LET D == {o \in Ops : t \in op[o].listeners}
        next == [o \in D |->
                    Suspend(op[o], afterWait(op[o], rev, t, TRUE, configured))]
    IN  /\ D # {}
        /\ op' = [o \in Ops |-> IF o \in D THEN next[o] ELSE op[o]]
        /\ badge' = BadgeAfter(D, next)
        /\ timers' = timers
        /\ UNCHANGED <<rev, configured, installed, reliable, quota, strip>>

\* The reload timeout of tab t fires before the tab is complete.
Timeout(o, t) ==
    /\ op[o].pc = "waits"
    /\ t \in op[o].pending
    /\ Commit(o, afterWait(op[o], rev, t, FALSE, configured))
    /\ UNCHANGED <<rev, configured, installed, reliable, quota, strip>>

\* chrome.runtime.sendMessage settles.
MsgDone(o) ==
    /\ op[o].pc = "msg"
    /\ \E response \in Responses(op[o]) :
          Commit(o, afterResponse([op[o] EXCEPT !.response = response.kind,
                                                !.answered = DOMAIN response.data],
                                  rev, response))
    /\ UNCHANGED <<rev, configured, installed, reliable, quota, strip>>

\* The host settles the oldest move request: it moves the first n tabs of the
\* request, and rejects the request unless it moved them all.
MoveDone(o) ==
    /\ op[o].pc = "move"
    /\ op[o].moveq # <<>>
    /\ LET req == Head(op[o].moveq)
       IN  \E n \in 0..Len(req.ids) :
             LET ok == n = Len(req.ids)
                 c1 == Emit([op[o] EXCEPT !.moveq = Tail(@)],
                            E(IF ok THEN "moved" ELSE "moveFailed", req.ids, req.index))
             IN  /\ strip' = MoveMany(strip, req.ids, req.index, n)
                 /\ Commit(o, afterMove(c1, rev, ok))
    /\ UNCHANGED <<rev, configured, installed, reliable, quota>>

\* chrome.action.setBadgeText settles: setBadgeBackgroundColor is called.
BadgeTextDone(o) ==
    /\ op[o].pc = "badgeText"
    /\ op' = [op EXCEPT ![o].pc = "badgeColor"]
    /\ UNCHANGED <<rev, configured, installed, reliable, quota, strip, badge, timers>>

\* chrome.action.setBadgeBackgroundColor settles: flashBadge sets its timeout
\* and returns, setWorkingBadge returns, and the invocation goes on.
BadgeColorDone(o) ==
    /\ op[o].pc = "badgeColor"
    /\ LET c == op[o]
           next == [x \in {o} |-> Resume(c)]
       IN  /\ op' = [op EXCEPT ![o] = next[o]]
           /\ badge' = BadgeAfter({o}, next)
           /\ timers' = IF IsTerminal(c.log[Len(c.log)]) THEN timers + 1
                         ELSE timers
    /\ UNCHANGED <<rev, configured, installed, reliable, quota, strip>>

\* A timeout set by flashBadge clears the badge.
ClearBadge ==
    /\ timers > 0
    /\ timers' = timers - 1
    /\ badge' = ""
    /\ UNCHANGED <<rev, configured, installed, reliable, quota, strip, op>>

Next ==
    \/ \E o \in Ops : Trigger(o)
    \/ \E o \in Ops : QueryDone(o)
    \/ \E t \in Window : TabUpdated(t)
    \/ \E o \in Ops, t \in Window : Timeout(o, t)
    \/ \E o \in Ops : MsgDone(o)
    \/ \E o \in Ops : MoveDone(o)
    \/ \E o \in Ops : BadgeTextDone(o)
    \/ \E o \in Ops : BadgeColorDone(o)
    \/ ClearBadge

Spec == Init /\ [][Next]_vars

\* The final revision in a window of WideTabs tabs.
WideInit ==
    /\ rev = "p2"
    /\ configured \in BOOLEAN
    /\ installed = TRUE
    /\ reliable = FALSE
    /\ quota = 1
    /\ strip = [i \in 1..WideTabs |-> i]
    /\ badge = ""
    /\ timers = 0
    /\ op = [o \in Ops |-> InitOp]

WideSpec == WideInit /\ [][Next]_vars

\* The user triggers a second operation at any moment after the first, in a
\* window of OverlapTabs tabs: the listeners are asynchronous functions and
\* nothing makes an invocation wait for an earlier one.  heliotropium is in
\* the manifest; the final revision meets it not installed, the revision with
\* the sequential moveTabs meets it installed and reliable.
OverlapInit ==
    /\ \/ rev = "p2" /\ installed = FALSE /\ reliable = FALSE
       \/ rev = "p1seq" /\ installed = TRUE /\ reliable = TRUE
    /\ configured = TRUE
    /\ quota = 2
    /\ strip = [i \in 1..OverlapTabs |-> i]
    /\ badge = ""
    /\ timers = 0
    /\ op = [o \in Ops |-> InitOp]

OverlapSpec == OverlapInit /\ [][Next]_vars

\* The operation awaits the host: a query, a reload wait, a message or a move.
Awaiting(o) ==
    op[o].pc \in {"query", "waits", "msg", "move", "badgeText", "badgeColor"}

\* The step in which the host settles something operation o awaits: QueryDone,
\* TabUpdated or Timeout on a pending wait, MsgDone, MoveDone or a badge call.
Settles(o) ==
    /\ Awaiting(o)
    /\ \/ op'[o].pc # op[o].pc
       \/ op'[o].pending # op[o].pending
       \/ op'[o].moveq # op[o].moveq

\* Every host call settles and every reload timeout fires: weak fairness of
\* the settling steps.  An operation that awaits the host always has such a
\* step enabled, so WF is spelled here with Awaiting for the ENABLED predicate.
Fairness ==
    \A o \in Ops : ([]<>(~Awaiting(o))) \/ ([]<><<Settles(o)>>_vars)

\* An operation that awaits the host can always be served by the host.
AwaitingIsEnabled ==
    \A o \in Ops : Awaiting(o) =>
        ENABLED (QueryDone(o) \/ MsgDone(o) \/ MoveDone(o)
                    \/ BadgeTextDone(o) \/ BadgeColorDone(o)
                    \/ \E t \in Window : Timeout(o, t))

FairSpec == Spec /\ Fairness

----------------------------------------------------------------------------
\* What the claims speak of

\* The places of the log of operation o that hold an event among evs.
Places(o, evs) == {k \in DOMAIN op[o].log : op[o].log[k].ev \in evs}

Count(o, evs) == Cardinality(Places(o, evs))

HasTerminal(o) == Places(o, {"success", "failure"}) # {}

Requests == {"reload", "get-dates", "move"}

\* The operation runs moveTabs of revision p1seq (its sort by date).
RunsMoveTabs(o) ==
    rev = "p1seq" /\ op[o].trig \in {"click", "sort-tabs-by-date"}

\* The index moveTabs and the batched sorts aim the first sorted tab at.
StartOf(o) ==
    MathMax({op[o].tabs[k].index : k \in DOMAIN op[o].tabs}) - Len(op[o].tabs) + 1

----------------------------------------------------------------------------
\* C1: an operation emits at most one terminal notification (reportSuccess
\* or reportFailure, neither twice nor both), in the revisions the claim is
\* drawn from: the listeners of part_002 and fetchTabDates of part_001:452.
C1_AtMostOneTerminal ==
    rev \in {"p2", "p1seq"} =>
        \A o \in Ops : Count(o, {"success", "failure"}) <= 1

\* C2: every started operation eventually emits a terminal notification,
\* when every host call settles and every timeout fires.
C2_EventuallyTerminal ==
    \A o \in Ops : (op[o].pc # "idle") ~> HasTerminal(o)

C2_Witness ==
    \E o \in Ops : /\ rev = "p2" /\ op[o].pc = "done" /\ HasTerminal(o)
                   /\ op[o].unloadedTabs # {}
                   /\ Places(o, {"moved"}) # {}

\* C3: reportWorking is emitted before the first reload request, before the
\* attribute request and before the first move request of the operation
\* (part_002 and floribundus_background.js).
C3_WorkingFirst ==
    rev \in {"p2", "bg"} =>
        \A o \in Ops : \A k \in Places(o, Requests) :
            \E j \in Places(o, {"working"}) : j < k

C3_Witness ==
    \E o \in Ops : /\ rev \in {"p2", "bg"}
                   /\ Places(o, {"reload"}) # {}
                   /\ Places(o, {"get-dates"}) # {}
                   /\ Places(o, {"move"}) # {}

\* C4: with 0 or 1 captured tabs the operation emits reportSuccess and issues
\* no reload, attribute or move request (part_002 and floribundus_background.js).
C4_ShortCircuit ==
    rev \in {"p2", "bg"} =>
        \A o \in Ops :
            (op[o].query = "ok" /\ Len(op[o].tabs) < 2) =>
                /\ op[o].pc \in {"badgeText", "badgeColor", "done"}
                /\ op[o].log = <<Sig("working"), Sig("success")>>

C4_Witness ==
    \E o \in Ops : /\ rev \in {"p2", "bg"} /\ op[o].pc = "done"
                   /\ Len(op[o].tabs) = 1 /\ HasTerminal(o)

\* C5: when moveTabs has issued its moves from the last sorted tab back to
\* the first and every move succeeded, sortedTabs[i] sits at index start + i
\* (i from 0), for contiguous and non-contiguous selections alike.
C5_FinalPositions ==
    \A o \in Ops :
        (RunsMoveTabs(o) /\ op[o].pc = "done" /\ Len(op[o].sortedTabs) > 0
            /\ Count(o, {"moved"}) = Len(op[o].sortedTabs)) =>
        \A k \in DOMAIN op[o].sortedTabs :
            IndexOf(strip, op[o].sortedTabs[k]) = StartOf(o) + (k - 1)

\* A non-contiguous selection whose order changed, every move succeeded.
C5_Witness ==
    \E o \in Ops :
        /\ RunsMoveTabs(o) /\ op[o].pc = "done"
        /\ Len(op[o].sortedTabs) = 2
        /\ Count(o, {"moved"}) = 2
        /\ op[o].tabs[1].index = 0 /\ op[o].tabs[2].index = 2
        /\ op[o].sortedTabs # TabIds(op[o].tabs)

\* C6: moveTabs issues its moves in descending order of the sorted sequence,
\* one at a time: the k-th move request of the log is the move of
\* sortedTabs[n + 1 - k], the host's answer to it is the next entry of the
\* log, and no request is issued before the previous one was answered.
C6_BackToFront ==
    \A o \in Ops : RunsMoveTabs(o) =>
        LET log == op[o].log
            n == Len(op[o].sortedTabs)
            moves == SelectSeq(log, LAMBDA e : e.ev = "move")
        IN  /\ Len(op[o].moveq) <= 1
            /\ \A k \in DOMAIN moves : moves[k].ids = <<op[o].sortedTabs[n + 1 - k]>>
            /\ \A k \in Places(o, {"move"}) :
                  k < Len(log) => log[k + 1].ev \in {"moved", "moveFailed"}

C6_Witness ==
    \E o \in Ops : /\ RunsMoveTabs(o) /\ op[o].pc = "done"
                   /\ Count(o, {"move"}) = 3
                   /\ op[o].sortedTabs # TabIds(op[o].tabs)

\* C7: one failed move does not stop the others: when the operation is over,
\* a move was requested for every tab of the sorted sequence (moveTabs of
\* part_001:380 and the per-move catch of part_001:58).
C7_AllMovesAttempted ==
    \A o \in Ops :
        ((RunsMoveTabs(o) \/ rev = "p1par") /\ op[o].pc = "done"
            /\ Count(o, {"moveFailed"}) = 1) =>
        \A k \in DOMAIN op[o].sortedTabs :
            \E j \in Places(o, {"move"}) : op[o].log[j].ids = <<op[o].sortedTabs[k]>>

\* C8: when a move failed, the operation's terminal notification is
\* reportFailure and never reportSuccess (part_002:232 and part_001:156).
C8_FailedMoveReported ==
    rev \in {"p2", "p1par"} =>
        \A o \in Ops :
            (op[o].pc = "done" /\ Places(o, {"moveFailed"}) # {}) =>
                /\ Places(o, {"success"}) = {}
                /\ Places(o, {"failure"}) # {}

\* C9: the attribute request is sent only when no reload wait of the
\* operation is unresolved.
C9_RequestAfterWaits ==
    \A o \in Ops : Places(o, {"get-dates"}) # {} => op[o].pending = {}

\* Two tabs were waited for, and the request was sent.
C9_Witness ==
    \E o \in Ops : /\ Places(o, {"get-dates"}) # {}
                   /\ Cardinality(op[o].unloadedTabs) >= 2

\* C10: fetchTabDates never throws, whatever the waits, the manifest and the
\* channel do (part_002:104 and part_001:452).
C10_NeverRaises ==
    rev \in {"p2", "p1seq"} => \A o \in Ops : ~op[o].threw

----------------------------------------------------------------------------
\* What the claims about the attribute index and the sorts speak of

\* The operation sorts by date (a click sorts by date too).
ByDate(o) == op[o].trig \in {"click", "sort-tabs-by-date"}

\* The operation has computed its sorted sequence and has requested a move
\* of it: for a sort by date, fetchTabDates has returned and op[o].tabInfoMap
\* is what it returned.
Sorted(o) == Places(o, {"move"}) # {}

SelectedIds(o) == Range(TabIds(op[o].tabs))

\* The channel's answer was no response, an error, malformed data or a throw.
FailedResponse(o) == op[o].response \in {"none", "error", "malformed", "throw"}

\* A date with a year: the date the claims call comparable.
Dated(d) == ~d.null /\ d.year # NULL

\* Its point in time, a missing month or day taken as 1.
PointInTime(d) ==
    (d.year * 12 + ((IF d.month \in {NULL, 0} THEN 1 ELSE d.month) - 1)) * 31
        + (IF d.day \in {NULL, 0} THEN 1 ELSE d.day)

\* The place of tab id in the snapshot, which is in ascending index order.
SnapshotPlace(o, id) == Position(TabIds(op[o].tabs), id)

TabOf(o, id) == op[o].tabs[SnapshotPlace(o, id)]

\* The locator the claims sort by: the url, or the empty string.
Locator(o, id) == IF TabOf(o, id).url = Undefined THEN <<>> ELSE TabOf(o, id).url

\* The index tab t had before the operation (the strip of Init).
IndexBefore(t) == t - 1

----------------------------------------------------------------------------
\* C11: the index fetchTabDates returns has an entry for every tab of the
\* selection, on every return path (no configuration, failed response,
\* response that covers only some ids).
C11_EntryForEveryItem ==
    rev \in {"p2", "bg"} =>
        \A o \in Ops : (ByDate(o) /\ Sorted(o)) =>
            SelectedIds(o) \subseteq DOMAIN op[o].tabInfoMap

\* A response with data for some of the ids only.
C11_Witness ==
    \E o \in Ops : /\ rev = "p2" /\ ByDate(o) /\ Sorted(o)
                   /\ op[o].response = "data"
                   /\ \E a, b \in SelectedIds(o) :
                         /\ op[o].tabInfoMap[a].null
                         /\ ~op[o].tabInfoMap[b].null

\* C12: when the channel yields no response, an error, a data field that is
\* no array, or throws, the returned index holds exactly one entry per tab of
\* the selection and every entry has date null.
C12_FailedResponseAllNull ==
    rev \in {"p2", "bg"} =>
        \A o \in Ops : (ByDate(o) /\ Sorted(o) /\ FailedResponse(o)) =>
            /\ DOMAIN op[o].tabInfoMap = SelectedIds(o)
            /\ \A id \in SelectedIds(o) : op[o].tabInfoMap[id].null

C12_Witness ==
    \E o \in Ops : /\ rev = "p2" /\ ByDate(o) /\ Sorted(o)
                   /\ op[o].response = "malformed"
                   /\ Len(op[o].tabs) < NumTabs

\* C13: an attribute request that ends in a transport error or a malformed
\* response makes the operation signal failure; a missing configuration alone
\* (every move succeeding) makes it signal no failure.
C13_FailureOnlyForBadAnswer ==
    rev \in {"p2", "p1seq"} =>
        \A o \in Ops : (ByDate(o) /\ op[o].pc = "done") =>
            /\ FailedResponse(o) => Places(o, {"failure"}) # {}
            /\ (~configured /\ Places(o, {"moveFailed"}) = {}) =>
                  Places(o, {"failure"}) = {}

\* C14: without the configuration in the manifest no message is sent, and
\* every tab of the selection has date null in the returned index.
C14_UnconfiguredSendsNothing ==
    (rev \in {"p2", "bg"} /\ ~configured) =>
        \A o \in Ops :
            /\ Places(o, {"get-dates"}) = {}
            /\ op[o].response = "unsent"
            /\ (ByDate(o) /\ Sorted(o)) =>
                  /\ DOMAIN op[o].tabInfoMap = SelectedIds(o)
                  /\ \A id \in SelectedIds(o) : op[o].tabInfoMap[id].null

C14_Witness ==
    \E o \in Ops : /\ rev = "p2" /\ ~configured /\ ByDate(o)
                   /\ op[o].pc = "done" /\ Len(op[o].tabs) >= 2
                   /\ op[o].unloadedTabs # {}

\* C15: the sort by date puts the tabs with a year in ascending order of
\* their point in time, followed by all the tabs without one; the result is
\* a reordering of the selection.
C15_DatedAscendingThenUndated ==
    rev = "p2" =>
        \A o \in Ops : (ByDate(o) /\ Sorted(o)) =>
            LET s == op[o].sortedTabs
                d(k) == op[o].tabInfoMap[s[k]]
            IN  /\ Len(s) = Len(op[o].tabs)
                /\ Range(s) = SelectedIds(o)
                /\ \A i, j \in DOMAIN s : i < j =>
                      /\ Dated(d(j)) => Dated(d(i))
                      /\ (Dated(d(i)) /\ Dated(d(j))) =>
                            PointInTime(d(i)) <= PointInTime(d(j))

\* The snapshot A (2024), B (no date), C (2023-05-05) is sorted C, A, B.
C15_Witness ==
    \E o \in Ops :
        /\ rev = "p2" /\ ByDate(o) /\ Sorted(o) /\ Len(op[o].tabs) = 3
        /\ LET A == op[o].tabs[1].id
               B == op[o].tabs[2].id
               C == op[o].tabs[3].id
           IN  /\ Dated(op[o].tabInfoMap[A]) /\ op[o].tabInfoMap[A].year = 2024
               /\ ~Dated(op[o].tabInfoMap[B])
               /\ Dated(op[o].tabInfoMap[C]) /\ op[o].tabInfoMap[C].year = 2023
               /\ op[o].sortedTabs = <<C, A, B>>

\* C16: of two tabs with a year, the one with the earlier point in time comes
\* first, and two with the same point in time come in ascending order of
\* their index in the window.
C16_EarlierFirstTiesByIndex ==
    rev = "p2" =>
        \A o \in Ops : (ByDate(o) /\ Sorted(o)) =>
            LET s == op[o].sortedTabs
                d(k) == op[o].tabInfoMap[s[k]]
            IN  \A i, j \in DOMAIN s :
                  (i < j /\ Dated(d(i)) /\ Dated(d(j))) =>
                      IF PointInTime(d(i)) = PointInTime(d(j))
                      THEN TabOf(o, s[i]).index < TabOf(o, s[j]).index
                      ELSE PointInTime(d(i)) < PointInTime(d(j))

\* Two tabs of the same date behind an earlier one: the sort moved the
\* earlier one to the front and kept the two in index order.
C16_Witness ==
    \E o \in Ops :
        /\ rev = "p2" /\ ByDate(o) /\ Sorted(o) /\ Len(op[o].tabs) = 3
        /\ LET A == op[o].tabs[1].id
               B == op[o].tabs[2].id
               C == op[o].tabs[3].id
           IN  /\ Dated(op[o].tabInfoMap[A]) /\ Dated(op[o].tabInfoMap[B])
               /\ Dated(op[o].tabInfoMap[C])
               /\ PointInTime(op[o].tabInfoMap[A]) = PointInTime(op[o].tabInfoMap[B])
               /\ PointInTime(op[o].tabInfoMap[C]) < PointInTime(op[o].tabInfoMap[A])
               /\ op[o].sortedTabs = <<C, A, B>>

\* C17: two tabs that both lack a comparable date keep the relative order of
\* the snapshot.
C17_UndatedKeepOrder ==
    rev = "p2" =>
        \A o \in Ops : (ByDate(o) /\ Sorted(o)) =>
            LET s == op[o].sortedTabs
                d(k) == op[o].tabInfoMap[s[k]]
            IN  \A i, j \in DOMAIN s :
                  (i < j /\ ~Dated(d(i)) /\ ~Dated(d(j))) =>
                      SnapshotPlace(o, s[i]) < SnapshotPlace(o, s[j])

\* Two tabs without comparable date, one with a null date and one with a
\* null year, in front of a dated tab.
C17_Witness ==
    \E o \in Ops :
        /\ rev = "p2" /\ ByDate(o) /\ Sorted(o) /\ Len(op[o].tabs) = 3
        /\ LET A == op[o].tabs[1].id
               B == op[o].tabs[2].id
               C == op[o].tabs[3].id
           IN  /\ op[o].tabInfoMap[A].null
               /\ ~op[o].tabInfoMap[B].null /\ op[o].tabInfoMap[B].year = NULL
               /\ Dated(op[o].tabInfoMap[C])
               /\ op[o].sortedTabs = <<C, A, B>>

\* C18: getComparableDate returns null exactly for a null date or a null
\* year, and for a date with a year the point in time with a missing month
\* or day taken as 1 (part_002:194 and floribundus_background.js:255), on
\* every date the sort hands it.
C18_ComparableDate ==
    rev \in {"p2", "bg"} =>
        \A o \in Ops : (ByDate(o) /\ Sorted(o)) =>
            \A id \in SelectedIds(o) :
                LET dateObj == dateOf(op[o].tabInfoMap, id)
                    date == IF rev = "bg" THEN getComparableDate_bg(dateObj)
                            ELSE getComparableDate_p2(dateObj)
                IN  /\ (date = NULL) <=> ~Dated(dateObj)
                    /\ Dated(dateObj) => date = PointInTime(dateObj)

\* C19: the sort by url puts the selection in non-decreasing order of url, a
\* missing url counting as the empty string, and tabs of equal url keep the
\* order of the snapshot.
C19_UrlOrderStable ==
    rev \in {"p2", "bg", "p1seq"} =>
        \A o \in Ops : (op[o].trig = "sort-tabs-by-url" /\ Sorted(o)) =>
            LET s == op[o].sortedTabs
            IN  /\ Len(s) = Len(op[o].tabs)
                /\ Range(s) = SelectedIds(o)
                /\ \A i, j \in DOMAIN s : i < j =>
                      /\ ~LexLess(Locator(o, s[j]), Locator(o, s[i]))
                      /\ Locator(o, s[i]) = Locator(o, s[j]) =>
                            SnapshotPlace(o, s[i]) < SnapshotPlace(o, s[j])

\* Two tabs of equal url in front of a tab without url: the sort moved the
\* tab without url to the front.
C19_Witness ==
    \E o \in Ops :
        /\ rev = "p2" /\ op[o].trig = "sort-tabs-by-url" /\ Sorted(o)
        /\ Len(op[o].tabs) = 3
        /\ op[o].tabs[1].url = op[o].tabs[2].url
        /\ op[o].tabs[1].url # Undefined
        /\ op[o].tabs[3].url = Undefined
        /\ op[o].sortedTabs = <<op[o].tabs[3].id, op[o].tabs[1].id, op[o].tabs[2].id>>

\* C20: when every move of the operation succeeded, every tab outside the
\* selection that was left of the leftmost selected tab is at the index it
\* had before the operation.
C20_LeftNeighboursStay ==
    rev \in {"p2", "bg", "p1seq"} =>
        \A o \in Ops :
            (op[o].pc = "done" /\ Places(o, {"moved"}) # {}
                /\ Places(o, {"moveFailed"}) = {}) =>
            \A t \in Window \ SelectedIds(o) :
                (\A k \in DOMAIN op[o].tabs : IndexBefore(t) < op[o].tabs[k].index) =>
                    IndexOf(strip, t) = IndexBefore(t)

\* The two rightmost tabs were selected and swapped; tab 1 is left of them.
C20_Witness ==
    \E o \in Ops :
        /\ rev \in {"p2", "p1seq"} /\ op[o].pc = "done"
        /\ Places(o, {"moved"}) # {} /\ Places(o, {"moveFailed"}) = {}
        /\ SelectedIds(o) = {2, 3}
        /\ op[o].sortedTabs = <<3, 2>>
        /\ strip = <<1, 3, 2>>

----------------------------------------------------------------------------
\* What the claims about capture, requests and listeners speak of

\* The captured tabs are in ascending order of their index.
Ascending(tabs) == \A i, j \in DOMAIN tabs : i < j => tabs[i].index < tabs[j].index

\* The ids of the tabs that were discarded or loading when captured.
PendingIds(o) == {op[o].tabs[k].id : k \in {k \in DOMAIN op[o].tabs : op[o].tabs[k].unloaded}}

\* The operation has entered fetchTabDates (part_002, floribundus_background.js).
Fetching(o) == ByDate(o) /\ op[o].query = "ok" /\ Len(op[o].tabs) >= 2

\* The log entries of operation o that are ev events, in order.
Entries(o, ev) == SelectSeq(op[o].log, LAMBDA e : e.ev = ev)

\* A step leaves every captured snapshot as it is, in ascending index order,
\* and the batched move it requests is aimed at rightmost - n + 1.
SnapshotKept ==
    rev \in {"p2", "bg", "p1seq"} =>
        \A o \in Ops :
            /\ op[o].pc \notin {"idle", "query"} => op'[o].tabs = op[o].tabs
            /\ op'[o].pc \in {"move", "done"} => Ascending(op'[o].tabs)
            /\ (rev # "p1seq" /\ op[o].pc # "move" /\ op'[o].pc = "move") =>
                  op'[o].log[Len(op'[o].log)].index =
                      MathMax({op'[o].tabs[k].index : k \in DOMAIN op'[o].tabs})
                          - Len(op'[o].tabs) + 1

----------------------------------------------------------------------------
\* C21: when tabs.query fails, the captured selection is empty, nothing is
\* thrown, and the operation signals failure (and no success).
C21_QueryFailureReported ==
    rev = "p2" =>
        \A o \in Ops : op[o].query = "failed" =>
            /\ op[o].tabs = <<>>
            /\ ~op[o].threw
            /\ Places(o, {"failure"}) # {}
            /\ Places(o, {"success"}) = {}

\* C22: the tabs getSelectedTabs returns are in ascending order of index,
\* whatever order tabs.query returned them in.
C22_CaptureAscending ==
    rev \in {"p2", "bg", "p1seq"} =>
        \A o \in Ops : op[o].query = "ok" => Ascending(op[o].tabs)

C22_Witness ==
    \E o \in Ops : /\ rev = "p2" /\ op[o].query = "ok"
                   /\ Len(op[o].tabs) = NumTabs
                   /\ op[o].pc = "waits"

\* C23: a sort by date with the configuration present sends one get-dates
\* request and no more, and the request names every tab of the selection,
\* the tabs whose reload wait timed out included.
C23_OneRequestForAllIds ==
    (rev \in {"p2", "bg"} /\ configured) =>
        \A o \in Ops :
            /\ Count(o, {"get-dates"}) <= 1
            /\ (Fetching(o) /\ op[o].pc # "waits") =>
                  Entries(o, "get-dates") = <<E("get-dates", TabIds(op[o].tabs), 0)>>

\* The listener a timed-out wait left behind (floribundus_background.js) shows
\* that the wait of a tab named in the request ended by timeout.
C23_Witness ==
    \E o \in Ops : /\ rev = "bg" /\ configured /\ op[o].pc = "done"
                   /\ op[o].listeners # {}
                   /\ Count(o, {"get-dates"}) = 1

\* C24: a reload wait that has resolved, by notification or by timeout, has
\* no listener registered any more, and once fetchTabDates is past its waits
\* the operation has no listener left.
C24_NoListenerAfterWait ==
    rev \in {"p2", "bg"} =>
        \A o \in Ops :
            /\ op[o].listeners \subseteq op[o].pending
            /\ op[o].pc # "waits" => op[o].listeners = {}

\* C25: a sort by url requests no reload and no dates, whatever the state of
\* the tabs, and registers no listener.
C25_UrlSortBypassesFetch ==
    rev \in {"p2", "bg", "p1seq"} =>
        \A o \in Ops : op[o].trig = "sort-tabs-by-url" =>
            /\ Places(o, {"reload", "get-dates"}) = {}
            /\ op[o].listeners = {}
            /\ op[o].response = "unsent"

\* A sort by url of a selection with a discarded or loading tab.
C25_Witness ==
    \E o \in Ops : /\ rev = "p2" /\ op[o].trig = "sort-tabs-by-url"
                   /\ op[o].pc = "done" /\ Places(o, {"moved"}) # {}
                   /\ PendingIds(o) # {}

\* C26: the keys of the index are ids of the selection: an entry of the
\* response for another tab never gets into the index.
C26_ExtraIdsIgnored ==
    rev \in {"p2", "bg"} =>
        \A o \in Ops : Fetching(o) => DOMAIN op[o].tabInfoMap \subseteq SelectedIds(o)

\* The response had an entry for a tab outside the selection and one for a
\* tab of the selection.
C26_Witness ==
    \E o \in Ops : /\ rev = "p2" /\ Fetching(o) /\ op[o].response = "data"
                   /\ op[o].answered \ SelectedIds(o) # {}
                   /\ op[o].answered \cap SelectedIds(o) # {}

\* C27: with the batched tabs.move an operation issues one move request and
\* no more; it carries all the ids in sorted order, and its index is
\* rightmost - n + 1.
C27_OneBatchedMove ==
    rev \in {"p2", "bg"} =>
        \A o \in Ops :
            /\ Count(o, {"move"}) <= 1
            /\ Sorted(o) =>
                  /\ Entries(o, "move") = <<E("move", op[o].sortedTabs, StartOf(o))>>
                  /\ Len(op[o].sortedTabs) = Len(op[o].tabs)
                  /\ Range(op[o].sortedTabs) = SelectedIds(o)

\* A sort by url of a selection that is not contiguous and changes order.
C27_Witness ==
    \E o \in Ops : /\ rev = "p2" /\ op[o].trig = "sort-tabs-by-url" /\ Sorted(o)
                   /\ Len(op[o].tabs) = 2
                   /\ op[o].tabs[2].index - op[o].tabs[1].index > 1
                   /\ op[o].sortedTabs # TabIds(op[o].tabs)

\* C28: once captured, the snapshot is never modified: no step of a sort
\* changes op.tabs, after sorting it is still in ascending index order, and
\* the index of the move is computed from its rightmost tab.
C28_SnapshotNeverModified == [][SnapshotKept]_vars

\* A sort by date whose sorted sequence differs from the snapshot.
C28_Witness ==
    \E o \in Ops : /\ rev = "p2" /\ ByDate(o) /\ Sorted(o)
                   /\ op[o].pc = "done"
                   /\ op[o].sortedTabs # TabIds(op[o].tabs)
                   /\ Ascending(op[o].tabs)

\* C29: an operation on two or more tabs that signalled success had no move
\* that failed, requested a move for every tab of the sorted sequence, and
\* left every tab at the index its move request aimed it at.
C29_SuccessMeansPlaced ==
    rev \in {"p2", "p1seq", "p1par"} =>
        \A o \in Ops :
            (op[o].pc = "done" /\ Len(op[o].tabs) >= 2
                /\ Places(o, {"success"}) # {}) =>
            /\ Places(o, {"moveFailed"}) = {}
            /\ \A k \in DOMAIN op[o].sortedTabs :
                  \E m \in Places(o, {"move"}) :
                      \E j \in DOMAIN op[o].log[m].ids :
                          /\ op[o].log[m].ids[j] = op[o].sortedTabs[k]
                          /\ IndexOf(strip, op[o].sortedTabs[k])
                                = op[o].log[m].index + (j - 1)

\* C30: a reload is requested for the tabs that were discarded or loading
\* in the snapshot, once each, and for no tab that was complete.
C30_ReloadOnlyPending ==
    rev \in {"p2", "bg"} =>
        \A o \in Ops :
            /\ \A k \in Places(o, {"reload"}) :
                  /\ Len(op[o].log[k].ids) = 1
                  /\ op[o].log[k].ids[1] \in PendingIds(o)
            /\ \A j, k \in Places(o, {"reload"}) :
                  op[o].log[j].ids = op[o].log[k].ids => j = k
            /\ Fetching(o) =>
                  {op[o].log[k].ids[1] : k \in Places(o, {"reload"})} = PendingIds(o)

\* One tab of the selection was loading, the others were complete.
C30_Witness ==
    \E o \in Ops : /\ rev = "p2" /\ Fetching(o) /\ Len(op[o].tabs) = NumTabs
                   /\ Cardinality(PendingIds(o)) = 1
                   /\ Count(o, {"reload"}) = 1
                   /\ op[o].pc = "msg"

----------------------------------------------------------------------------
\* The selection is in non-decreasing order of url in s, tabs of equal url in
\* snapshot order.
InUrlOrder(o, s) ==
    /\ Range(s) = SelectedIds(o)
    /\ \A i, j \in DOMAIN s : i < j =>
          /\ ~LexLess(Locator(o, s[j]), Locator(o, s[i]))
          /\ Locator(o, s[i]) = Locator(o, s[j]) =>
                SnapshotPlace(o, s[i]) < SnapshotPlace(o, s[j])

\* C31: when the date request is rejected because heliotropium is not
\* installed or cannot be reached, an operation started by a click ends with
\* the selection sorted by url, and an operation started by the
\* sort-tabs-by-date command ends with the failure notification, without a
\* success notification and without a move request.
C31_UnreachableFallsBackOrFails ==
    rev = "p2" =>
        \A o \in Ops :
            (op[o].pc = "done" /\ op[o].response = "throw") =>
                /\ op[o].trig = "click" => InUrlOrder(o, op[o].sortedTabs)
                /\ op[o].trig = "sort-tabs-by-date" =>
                      /\ Places(o, {"failure"}) # {}
                      /\ Places(o, {"success"}) = {}
                      /\ Places(o, {"move"}) = {}

----------------------------------------------------------------------------
\* The index the operation aims the first tab of its block at: startIndex of
\* moveTabs, or the index of the batched move.
BlockStart(o) ==
    IF RunsMoveTabs(o) THEN op[o].startIndex ELSE Entries(o, "move")[1].index

\* C32: for a selection of n >= 2 tabs the block the sort aims at lies inside
\* the span of the selection: start = rightmost - n + 1, leftmost <= start,
\* start >= 0, the last index of the block start + n - 1 is rightmost, and
\* every move request aims inside the block.
C32_BlockInsideSpan ==
    rev \in {"p2", "bg", "p1seq"} =>
        \A o \in Ops : (Sorted(o) /\ Len(op[o].tabs) >= 2) =>
            LET indexes == {op[o].tabs[k].index : k \in DOMAIN op[o].tabs}
                n == Len(op[o].tabs)
                leftmost == MathMin(indexes)
                rightmost == MathMax(indexes)
                first == BlockStart(o)
            IN  /\ Cardinality(indexes) = n
                /\ first = rightmost - n + 1
                /\ leftmost <= first
                /\ first >= 0
                /\ first + n - 1 = rightmost
                /\ \A k \in Places(o, {"move"}) :
                      op[o].log[k].index \in first..rightmost

\* Two tabs with a tab between them: the block starts right of the leftmost.
C32_Witness ==
    \E o \in Ops :
        /\ rev = "p2" /\ ByDate(o) /\ op[o].pc = "done" /\ Len(op[o].tabs) = 2
        /\ op[o].tabs[1].index = 0 /\ op[o].tabs[2].index = 2
        /\ BlockStart(o) = 1

----------------------------------------------------------------------------
\* C33: in the sort by url and in the sort by date, the ids handed to a move
\* request are a permutation of the ids of the snapshot: every selected tab
\* once, and no other id, whatever ids the date response named.
C33_MovedIdsArePermutation ==
    rev \in {"p2", "bg"} =>
        \A o \in Ops : \A k \in Places(o, {"move"}) :
            LET ids == op[o].log[k].ids
            IN  /\ Len(ids) = Len(op[o].tabs)
                /\ \A id \in SelectedIds(o) :
                      Cardinality({i \in DOMAIN ids : ids[i] = id}) = 1
                /\ \A i \in DOMAIN ids : ids[i] \in SelectedIds(o)
                /\ op[o].answered \cap Range(ids) \subseteq SelectedIds(o)

\* A sort by date that changed the order, after a response that also named a
\* tab outside the selection.
C33_Witness ==
    \E o \in Ops :
        /\ rev = "p2" /\ ByDate(o) /\ op[o].pc = "done"
        /\ Places(o, {"move"}) # {}
        /\ op[o].answered \ SelectedIds(o) # {}
        /\ op[o].sortedTabs # TabIds(op[o].tabs)

----------------------------------------------------------------------------
\* C34: when no tab has a date because the endpoint is not configured or the
\* request failed, the sort by date keeps the snapshot order, and when its
\* move succeeded the selected tabs fill the block that ends at the rightmost
\* selected index in their original relative order and the success
\* notification was emitted.
C34_AllAbsentKeepsOrder ==
    rev = "p2" =>
        \A o \in Ops :
            (/\ ByDate(o) /\ op[o].pc = "done" /\ Len(op[o].tabs) >= 2
             /\ ~configured \/ FailedResponse(o)
             /\ Count(o, {"moved"}) = 1) =>
                /\ op[o].sortedTabs = TabIds(op[o].tabs)
                /\ \A k \in DOMAIN op[o].tabs :
                      IndexOf(strip, op[o].tabs[k].id) = StartOf(o) + (k - 1)
                /\ Places(o, {"success"}) # {}

----------------------------------------------------------------------------
\* moveTabs of operation o has issued a move that is not its last: it awaits
\* the move of sortedTabIds[i], i > 0.
MidSequence(o) == RunsMoveTabs(o) /\ op[o].pc = "move" /\ op[o].i > 0

\* C35, as the claim states it: the move sequences of two overlapping
\* operations do not interleave: no two operations are at the same time
\* between the first and the last move request of their moveTabs (of two
\* such operations one would have issued its pending move after the first
\* and before the last move of the other).
C35_MovesDoNotInterleave ==
    rev = "p1seq" =>
        \A a, b \in Ops : a # b => ~(MidSequence(a) /\ MidSequence(b))

\* C35, amended: when sort operations overlap, the moves of each operation
\* stay sequential among themselves: moveTabs asks for one tab at a time,
\* back to front through its block, and asks for the next move only after the
\* host has settled the previous one, so an operation never has two moves
\* outstanding.  (Moves of another operation may fall between them.)
C35_OwnMovesSequential ==
    rev = "p1seq" =>
        \A o \in Ops : RunsMoveTabs(o) =>
            LET log == op[o].log
                moves == Places(o, {"move"})
                settled == Places(o, {"moved", "moveFailed"})
            IN  /\ Len(op[o].moveq) <= 1
                /\ \A k \in moves : Len(log[k].ids) = 1
                /\ \A j, k \in moves : j < k =>
                       /\ \E m \in settled : j < m /\ m < k
                       /\ log[k].index < log[j].index

\* Two operations are both between the first and the last move of their
\* moveTabs, each with one move outstanding.
C35_Witness ==
    /\ rev = "p1seq"
    /\ \E a, b \in Ops :
          /\ a # b
          /\ MidSequence(a) /\ Len(op[a].moveq) = 1
          /\ MidSequence(b) /\ Len(op[b].moveq) = 1

\* The operation has set the working badge and has not finished.
InProgress(o) ==
    /\ op[o].pc \notin {"idle", "done"}
    /\ Places(o, {"working"}) # {}
    /\ ~HasTerminal(o)

\* C36: while an operation is between its working notification and its
\* terminal notification the badge is not blank: the clear scheduled by the
\* flashBadge of an operation that was started earlier does not wipe the
\* working label of a later operation that is still in progress.
C36_WorkingLabelNotCleared ==
    rev = "p2" =>
        \A a, b \in Ops :
            (a < b /\ HasTerminal(a) /\ InProgress(b)) => badge # ""

============================================================================
